---------------------------- MODULE Spec2Model ----------------------------
(***************************************************************************)
(* A model of the season / territory backend of src/main.py: the store    *)
(* (seasons, users, user_runs, territories, season_podiums), the direct    *)
(* run submission, the Strava sync, the token refresh and the season       *)
(* closure job.  Every request handler runs on a connection of its own:    *)
(* its writes reach the store at conn.commit() and are discarded by        *)
(* conn.rollback() or by conn.close() without a commit.                    *)
(*                                                                         *)
(* Coordinates are integers in units of 1e-4 degree.  The geometry engine  *)
(* of the store (PostGIS) is modelled on a grid of cells of 10 x 10 units. *)
(***************************************************************************)
EXTENDS Integers, Sequences, FiniteSets, Bags, TLC

\* ------------------------------------------------------------------ bounds
\* The last calendar day the model reaches.
MaxDay == 4
\* The number of rows user_runs may hold.
MaxRuns == 2
\* The last value time.time() takes, in seconds.
MaxNow == 120
\* The number of rows user_runs may hold while a podium is contested.
MaxEntries == 4
\* The largest number of users with a total that is ranked.
MaxRanked == 32

\* --------------------------------------------------------------- constants
\* SQL NULL / Python None in an integer column.
None == 0
\* SQL NULL in a column where 0 is a value: the empty option; Some(v) holds v.
NullVal == {}
Some(v) == {v}
\* The value of a non-NULL option.
ValueOf(o) == CHOOSE v \in o : TRUE

Users == {1, 2, 3, 4}
\* The users whose requests the specifications of the request handlers follow.
Clients == {1, 2}
Seasons == {1, 2}
\* The seasons table as the administrator filled it: season 1 is day 1,
\* season 2 is day 3; day 2 and the days after 3 belong to no season.
start_date == [s \in Seasons |-> IF s = 1 THEN 1 ELSE 3]
end_date == [s \in Seasons |-> IF s = 1 THEN 1 ELSE 3]

\* ---------------------------------------------------------------- geometry
Abs(x) == IF x < 0 THEN -x ELSE x
Min(S) == CHOOSE x \in S : \A y \in S : x <= y
Max(S) == CHOOSE x \in S : \A y \in S : y <= x

\* cos of a coordinate, in percent, for the whole degrees the model uses.
CosPct(c) ==
  LET deg == Abs(c) \div 10000
  IN  CASE deg < 15 -> 100
        [] deg < 40 -> 87
        [] deg < 55 -> 71
        [] OTHER    -> 50

\* The largest r in lo..hi with r * r <= n, by bisection.
RECURSIVE IsqrtIn(_, _, _)
IsqrtIn(n, lo, hi) ==
  IF lo >= hi THEN lo
  ELSE LET mid == (lo + hi + 1) \div 2
       IN  IF mid * mid <= n THEN IsqrtIn(n, mid, hi) ELSE IsqrtIn(n, lo, mid - 1)

\* The largest r with r * r <= n (n below 2^22).
Isqrt(n) == IsqrtIn(n, 0, 2047)

\* The haversine function in effect (the second definition replaces the
\* first when the module is loaded): whole metres between two points, its
\* parameters in the order (lon1, lat1, lon2, lat2).  For the short gaps of
\* the model the great circle is the chord: R * sqrt(dlat^2 + cos(lat1) *
\* cos(lat2) * dlon^2), one unit of arc being 11.1195 m.
calculate_distance(lon1, lat1, lon2, lat2) ==
  LET dlon == lon2 - lon1
      dlat == lat2 - lat1
      q == dlat * dlat * 10000 + CosPct(lat1) * CosPct(lat2) * dlon * dlon
  IN  Isqrt(((q \div 100) * 12364) \div 10000)

\* The threshold of the closed-loop test, in metres.
ClosedLoopGap == 50

\* create_run's closed-loop test on the submitted points (records lat, lng):
\* the arguments are passed as (lat, lng, lat, lng).
is_closed_loop(points) ==
  LET start_point == points[1]
      end_point == points[Len(points)]
      distance_gap == calculate_distance(start_point.lat, start_point.lng,
                                         end_point.lat, end_point.lng)
  IN  distance_gap < ClosedLoopGap

\* The WKT line of a direct submission: "lng lat" per point.
WktOfPoints(points) == [i \in 1..Len(points) |-> <<points[i].lng, points[i].lat>>]

\* The WKT line of a synced stream: Strava sends (lat, lng), p[1] p[0] swaps.
WktOfCoords(raw_coords) ==
  [i \in 1..Len(raw_coords) |-> <<raw_coords[i][2], raw_coords[i][1]>>]

\* ST_Length(geom::geography): the sum of the segments, x = lng and y = lat.
ST_Length(wkt) ==
  LET seg[i \in 0..Len(wkt)] ==
        IF i < 2 THEN 0
        ELSE seg[i - 1] + calculate_distance(wkt[i - 1][1], wkt[i - 1][2],
                                             wkt[i][1], wkt[i][2])
  IN  seg[Len(wkt)]

\* ST_MakePolygon(ST_AddPoint(line, ST_StartPoint(line))): the cells the ring
\* encloses.  The tracks of the model are rectilinear, so the ring encloses
\* the cells of its bounding box; a ring on one line encloses none.
ST_MakePolygon(wkt) ==
  LET xs == {wkt[i][1] : i \in 1..Len(wkt)}
      ys == {wkt[i][2] : i \in 1..Len(wkt)}
  IN  {<<i, j>> : i \in (Min(xs) \div 10)..((Max(xs) \div 10) - 1),
                  j \in (Min(ys) \div 10)..((Max(ys) \div 10) - 1)}

ST_Union(g1, g2) == g1 \cup g2

\* ST_Area(geom::geography) in square metres: 12364 per cell.
ST_Area(geom) == Cardinality(geom) * 12364



\* ------------------------------------------------------------------ inputs
Pt(la, ln) == [lat |-> la, lng |-> ln]

\* Two points only: rejected by create_run.
TShort == <<Pt(0, 0), Pt(0, 20)>>
\* Three points, 314 m between the first and the last: an open track.
TOpen == <<Pt(0, 0), Pt(0, 20), Pt(20, 20)>>
\* A square walked back to 22 m from its start: a closed loop of 4 cells.
TLoopA == <<Pt(0, 0), Pt(0, 20), Pt(20, 20), Pt(20, 0), Pt(2, 0)>>

\* A second closed loop, of 2 cells, one of them a cell of TLoopA.
TLoopB == <<Pt(0, 10), Pt(0, 30), Pt(10, 30), Pt(10, 10), Pt(2, 10)>>
\* Out and back along one line to 22 m from the start: a closed loop whose
\* ring encloses nothing.
TLine == <<Pt(0, 0), Pt(0, 20), Pt(0, 2)>>

\* A loop at 60 degrees of longitude whose ends are 66 m apart north-south.
THighLng == <<Pt(0, 600000), Pt(0, 600020), Pt(20, 600020), Pt(20, 600000), Pt(6, 600000)>>
\* A loop at 60 degrees of latitude whose ends are 33 m apart east-west.
THighLat == <<Pt(600000, 0), Pt(600000, 20), Pt(600020, 20), Pt(600020, 0), Pt(600000, 6)>>
\* A track at 45 degrees of longitude for whose ends the handler computes a
\* gap of 50 m.
TEdge == <<Pt(0, 450000), Pt(0, 450020), Pt(20, 450020), Pt(20, 450000), Pt(3, 450004)>>
\* The tracks a client submits away from the origin, and two next to it.
GapTracks == {TOpen, TLoopA, THighLng, THighLat, TEdge}

\* The point lists a client submits to POST /api/runs.
DirectTracks == {TShort, TOpen, TLoopA}
\* The closed loops a client submits.
LoopTracks == {TLoopA, TLoopB, TLine}

\* The statements of a transaction at which the store may raise
\* (psycopg2.Error); "none": every statement succeeds.
CreateRunFailures == {"none", "insert_run", "upsert_territory", "update_area", "commit"}
SyncFailures == {"none", "insert_run"}
ClosureFailures == {"none", "insert_podium", "update_season"}
CallbackFailures == {"none", "update_users"}

\* The requests uvicorn may be handling at once.
Procs == {1, 2}

\* ------------------------------------------------------------------- state
VARIABLES
  today,           \* CURRENT_DATE of the store
  now,             \* time.time(), in seconds
  is_active,       \* seasons.is_active, per season id
  users,           \* the strava_* columns of users, per user id
  user_runs,       \* the rows of user_runs, a bag
  territories,     \* the rows of territories, keyed by <<user_id, season_id>>
  season_podiums,  \* the rows of season_podiums, a bag
  requests,        \* the sync requests in flight, waiting for the provider
  last             \* the last event: the request handled and its response

vars == <<today, now, is_active, users, user_runs, territories, season_podiums,
          requests, last>>

store == <<is_active, users, user_runs, territories, season_podiums>>

\* A user that never authorized Strava: the four columns are NULL.
NoCredential ==
  [strava_athlete_id |-> None, strava_access_token |-> None,
   strava_refresh_token |-> None, strava_token_expires_at |-> None]

\* No row of territories for the key.
NoTerritory == [present |-> FALSE, geom |-> {}, area_sq_meters |-> 0]

\* No request in the slot.
Idle == [pc |-> "idle"]

Init ==
  /\ today = 1
  /\ now = 0
  /\ is_active = [s \in Seasons |-> TRUE]
  /\ users = [u \in Users |-> NoCredential]
  /\ user_runs = EmptyBag
  /\ territories = [k \in Users \X Seasons |-> NoTerritory]
  /\ season_podiums = EmptyBag
  /\ requests = [p \in Procs |-> Idle]
  /\ last = [op |-> "start"]

\* INSERT INTO user_runs: the table with one more copy of the row.
InsertRun(runs, row) == runs (+) SetToBag({row})

\* A season lookup that takes every season that has not ended yet.
CurrentSeasonsNotEnded(d) == {s \in Seasons : d <= end_date[s]}

\* A lookup that forgets end_date: every season that has started.
CurrentSeasonsStarted(d) == {s \in Seasons : start_date[s] <= d}

\* SELECT id FROM seasons WHERE CURRENT_DATE BETWEEN start_date AND end_date
\* LIMIT 1: the rows the query may return (at most one is fetched).
CurrentSeasons(d) == {s \in Seasons : start_date[s] <= d /\ d <= end_date[s]}

\* ------------------------------------------------------ direct submission
\* A threshold one too low: two points are let through.
TooShortBelowTwo(points) == Len(points) < 2

\* if len(run.points) < 3: raise HTTPException(400, "Recorrido muy corto")
TooShort(points) == Len(points) < 3

\* INSERT INTO user_runs (user_id, season_id, geom, distance_meters): the
\* columns the statement leaves out are NULL.
DirectRunRow(user_id, season_id, wkt) ==
  [user_id |-> user_id, season_id |-> season_id, strava_id |-> NullVal,
   geom |-> wkt, distance_meters |-> ST_Length(wkt),
   elevation_gain |-> NullVal, created_at |-> today]

\* An upsert that overwrites: ON CONFLICT ... SET geom = EXCLUDED.geom.
UpsertTerritoryReplacing(terr, user_id, season_id, wkt) ==
  [terr EXCEPT ![<<user_id, season_id>>] =
     [present |-> TRUE, geom |-> ST_MakePolygon(wkt),
      area_sq_meters |-> IF terr[<<user_id, season_id>>].present
                         THEN terr[<<user_id, season_id>>].area_sq_meters ELSE 0]]

\* INSERT INTO territories ... ON CONFLICT (user_id, season_id) DO UPDATE SET
\* geom = ST_Union(territories.geom, EXCLUDED.geom): area_sq_meters is 0 on
\* insert and is left as it was on conflict.
UpsertTerritory(terr, user_id, season_id, wkt) ==
  LET k == <<user_id, season_id>>
      poly == ST_MakePolygon(wkt)
  IN  IF terr[k].present
      THEN [terr EXCEPT ![k].geom = ST_Union(terr[k].geom, poly)]
      ELSE [terr EXCEPT ![k] = [present |-> TRUE, geom |-> poly, area_sq_meters |-> 0]]

\* An update that adds up: SET area_sq_meters = area_sq_meters + ST_Area(geom).
UpdateAreaAccumulating(terr, user_id, season_id) ==
  LET k == <<user_id, season_id>>
  IN  IF terr[k].present
      THEN [terr EXCEPT ![k].area_sq_meters =
              terr[k].area_sq_meters + ST_Area(terr[k].geom)]
      ELSE terr

\* UPDATE territories SET area_sq_meters = ST_Area(geom::geography)
\* WHERE user_id = %s AND season_id = %s
UpdateArea(terr, user_id, season_id) ==
  LET k == <<user_id, season_id>>
  IN  IF terr[k].present
      THEN [terr EXCEPT ![k].area_sq_meters = ST_Area(terr[k].geom)]
      ELSE terr

\* A handler that runs the merge whatever the track.
CreateRunStatementsAlways(points) ==
  <<"insert_run", "upsert_territory", "update_area", "commit">>

\* The statements create_run executes for a track, in order.
CreateRunStatements(points) ==
  IF is_closed_loop(points)
  THEN <<"insert_run", "upsert_territory", "update_area", "commit">>
  ELSE <<"insert_run", "commit">>

\* A handler without conn.rollback() whose connection is committed on the
\* way out: what was executed before the statement that raised is kept.
CreateRunTxNoRollback(runs, terr, user_id, season_id, points, failure) ==
  LET wkt == WktOfPoints(points)
      stmts == CreateRunStatements(points)
      raised == \E i \in DOMAIN stmts : stmts[i] = failure
      runs1 == InsertRun(runs, DirectRunRow(user_id, season_id, wkt))
      terr1 == UpsertTerritory(terr, user_id, season_id, wkt)
      terr2 == IF is_closed_loop(points) THEN UpdateArea(terr1, user_id, season_id)
               ELSE terr
  IN  CASE ~raised -> [status |-> 200, runs |-> runs1, terr |-> terr2]
        [] raised /\ failure = "insert_run" -> [status |-> 500, runs |-> runs, terr |-> terr]
        [] raised /\ failure = "upsert_territory" ->
             [status |-> 500, runs |-> runs1, terr |-> terr]
        [] raised /\ failure = "update_area" ->
             [status |-> 500, runs |-> runs1, terr |-> terr1]
        [] OTHER -> [status |-> 500, runs |-> runs, terr |-> terr]

\* The transaction of create_run once the season is known: what the store
\* holds afterwards when it raises at statement `failure` ("none", or a
\* statement the request does not execute: it raises nowhere).  Every
\* exception is answered by conn.rollback(): nothing is kept.
CreateRunTx(runs, terr, user_id, season_id, points, failure) ==
  LET wkt == WktOfPoints(points)
      stmts == CreateRunStatements(points)
      raised == \E i \in DOMAIN stmts : stmts[i] = failure
      runs1 == InsertRun(runs, DirectRunRow(user_id, season_id, wkt))
      terr1 == IF is_closed_loop(points)
               THEN UpdateArea(UpsertTerritory(terr, user_id, season_id, wkt),
                               user_id, season_id)
               ELSE terr
  IN  IF raised
      THEN [status |-> 500, runs |-> runs, terr |-> terr]
      ELSE [status |-> 200, runs |-> runs1, terr |-> terr1]

\* The statements at which a submission of `points` on day d may raise.
CreateRunFailuresAt(points, d) ==
  IF TooShort(points) \/ CurrentSeasons(d) = {} THEN {"none"}
  ELSE LET stmts == CreateRunStatements(points)
       IN  {"none"} \cup (CreateRunFailures \cap {stmts[i] : i \in DOMAIN stmts})

\* The response of create_run as the model keeps it.
CreateRunResponse(points, status, detail, failure) ==
  [op |-> "create_run", points |-> points, status |-> status, detail |-> detail,
   failure |-> failure]

\* POST /api/runs
create_run(user_id, points, failure) ==
  /\ UNCHANGED <<today, now, is_active, users, season_podiums, requests>>
  /\ IF TooShort(points)
     THEN /\ UNCHANGED <<user_runs, territories>>
          /\ last' = CreateRunResponse(points, 400, "Recorrido muy corto", "none")
     ELSE IF CurrentSeasons(today) = {}
     THEN /\ UNCHANGED <<user_runs, territories>>
          /\ last' = CreateRunResponse(points, 400, "No hay una temporada activa", "none")
     ELSE \E season_id \in CurrentSeasons(today) :
            LET tx == CreateRunTx(user_runs, territories, user_id, season_id,
                                  points, failure)
            IN  /\ user_runs' = tx.runs
                /\ territories' = tx.terr
                /\ last' = IF tx.status = 200
                           THEN CreateRunResponse(points, 200, "Guardado exitoso", "none")
                           ELSE CreateRunResponse(points, 500, "error", failure)

\* ------------------------------------------------------------ the provider
\* The margin of get_valid_token_raw, in seconds.
Margin == 60

\* The token grants the provider hands out, numbered by the time of issue:
\* grant g carries an access token and a refresh token of its own, and
\* expires a fixed lifetime after it was issued.
Lifetime == 2 * Margin
GrantAt(t) == 1 + (t \div Margin)
AccessOf(g) == g
RefreshOf(g) == 10 + g
ExpiresOf(g) == (g - 1) * Margin + Lifetime
AthleteOf(u) == 100 + u

\* An answer of POST /oauth/token: status 200 with the fields of a grant, or
\* a non-success status.
TokenResponse(g) ==
  [status_code |-> 200, access_token |-> AccessOf(g), refresh_token |-> RefreshOf(g),
   expires_at |-> ExpiresOf(g)]
TokenRefused ==
  [status_code |-> 400, access_token |-> None, refresh_token |-> None,
   expires_at |-> None]

\* What the provider may answer at time t to an authorization code: the
\* grant of that time, or a refusal.
CodeResponses(t) == {TokenRefused, TokenResponse(GrantAt(t))}

\* What the provider may answer at time t to a refresh with `refresh_token`:
\* without a token it refuses.
RefreshResponses(refresh_token, t) ==
  IF refresh_token = None THEN {TokenRefused} ELSE CodeResponses(t)

\* The activities of the provider: total_elevation_gain and the latlng
\* stream, (lat, lng) per sample; NullVal: the activity has no latlng stream.
Activities == {1, 2, 3, 4}
ActivityElevation(a) == IF a = 1 THEN 30 ELSE 0
ActivityStream(a) ==
  CASE a = 1 -> Some(<<<<0, 0>>, <<0, 20>>, <<20, 20>>, <<20, 0>>, <<2, 0>>>>)
    [] a = 2 -> Some(<<<<0, 0>>, <<0, 20>>>>)
    [] a = 3 -> NullVal
    [] OTHER -> Some(<<<<0, 0>>>>)

\* An answer of GET /athlete/activities?per_page=1: a status and the list,
\* empty or holding the latest activity.
ActivitiesRefused == [status_code |-> 401, activities |-> <<>>]
ActivityResponses ==
  {ActivitiesRefused, [status_code |-> 200, activities |-> <<>>]}
  \cup {[status_code |-> 200, activities |-> <<a>>] : a \in Activities}

\* An answer of GET /activities/{id}/streams: the streams of the activity, or
\* an error body (which has no 'latlng' key) under a non-success status.
StreamsRefused == [status_code |-> 404, latlng |-> NullVal]
StreamResponses(a) == {[status_code |-> 200, latlng |-> ActivityStream(a)], StreamsRefused}

\* A token check that does not test the status of the refresh answer: the
\* fields of the answer are stored and its access token is returned.
get_valid_token_unchecked(row, current_time, response) ==
  LET expires_at == row.strava_token_expires_at
  IN  IF expires_at # None /\ current_time < expires_at - Margin
      THEN [raised |-> FALSE, token |-> row.strava_access_token, called |-> FALSE,
            row |-> row]
      ELSE [raised |-> FALSE, token |-> response.access_token, called |-> TRUE,
            row |-> [row EXCEPT !.strava_access_token = response.access_token,
                                !.strava_refresh_token = response.refresh_token,
                                !.strava_token_expires_at = response.expires_at]]

\* A token check that still accepts the stored token at the margin itself.
get_valid_token_inclusive(row, current_time, response) ==
  LET access_token == row.strava_access_token
      expires_at == row.strava_token_expires_at
  IN  IF expires_at # None /\ current_time <= expires_at - Margin
      THEN [raised |-> FALSE, token |-> access_token, called |-> FALSE, row |-> row]
      ELSE IF response.status_code # 200
      THEN [raised |-> TRUE, token |-> None, called |-> TRUE, row |-> row]
      ELSE [raised |-> FALSE, token |-> response.access_token, called |-> TRUE,
            row |-> [row EXCEPT !.strava_access_token = response.access_token,
                                !.strava_refresh_token = response.refresh_token,
                                !.strava_token_expires_at = response.expires_at]]

\* --------------------------------------------------------- token lifecycle
\* get_valid_token_raw on the row of the user as the cursor reads it:
\*   raised    the function raised (the provider refused the refresh);
\*   token     the access token returned;
\*   called    a refresh exchange was made;
\*   row       the row after the UPDATE of the cursor (not yet committed).
get_valid_token_raw(row, current_time, response) ==
  LET access_token == row.strava_access_token
      refresh_token == row.strava_refresh_token
      expires_at == row.strava_token_expires_at
  IN  IF expires_at # None /\ current_time < expires_at - Margin
      THEN [raised |-> FALSE, token |-> access_token, called |-> FALSE, row |-> row]
      ELSE IF response.status_code # 200
      THEN [raised |-> TRUE, token |-> None, called |-> TRUE, row |-> row]
      ELSE [raised |-> FALSE, token |-> response.access_token, called |-> TRUE,
            row |-> [row EXCEPT !.strava_access_token = response.access_token,
                                !.strava_refresh_token = response.refresh_token,
                                !.strava_token_expires_at = response.expires_at]]

\* A callback that stores the tokens of the answer and not the athlete.
strava_callback_tokens_only(user_id, response, failure) ==
  /\ UNCHANGED <<today, now, is_active, user_runs, territories, season_podiums, requests>>
  /\ IF response.status_code # 200
     THEN /\ UNCHANGED users
          /\ last' = [op |-> "callback", user |-> user_id, status |-> 400]
     ELSE IF failure # "none"
     THEN /\ UNCHANGED users
          /\ last' = [op |-> "callback", user |-> user_id, status |-> 500]
     ELSE /\ users' = [users EXCEPT ![user_id].strava_access_token = response.access_token,
                                    ![user_id].strava_refresh_token = response.refresh_token,
                                    ![user_id].strava_token_expires_at = response.expires_at]
          /\ last' = [op |-> "callback", user |-> user_id, status |-> 307]

\* GET /api/strava/callback: the code is exchanged, and on status 200 the
\* four columns are written by one UPDATE and committed.
strava_callback(user_id, response, failure) ==
  /\ UNCHANGED <<today, now, is_active, user_runs, territories, season_podiums, requests>>
  /\ IF response.status_code # 200
     THEN /\ UNCHANGED users
          /\ last' = [op |-> "callback", user |-> user_id, status |-> 400]
     ELSE IF failure # "none"
     THEN /\ UNCHANGED users
          /\ last' = [op |-> "callback", user |-> user_id, status |-> 500]
     ELSE /\ users' = [users EXCEPT ![user_id] =
                         [strava_athlete_id |-> AthleteOf(user_id),
                          strava_access_token |-> response.access_token,
                          strava_refresh_token |-> response.refresh_token,
                          strava_token_expires_at |-> response.expires_at]]
          /\ last' = [op |-> "callback", user |-> user_id, status |-> 307]

\* -------------------------------------------------------------------- sync
\* INSERT INTO user_runs (user_id, season_id, strava_id, geom,
\* distance_meters, elevation_gain).  strava_id is str(id): the id stands for
\* its decimal string.
SyncedRunRow(user_id, season_id, strava_id, wkt, elevation_gain) ==
  [user_id |-> user_id, season_id |-> season_id, strava_id |-> Some(strava_id),
   geom |-> wkt, distance_meters |-> ST_Length(wkt),
   elevation_gain |-> Some(elevation_gain), created_at |-> today]

\* A handler without the duplicate check: no activity is ever found.
AlreadyInRunsNever(runs, strava_id, user_id) == FALSE

\* SELECT 1 FROM user_runs WHERE strava_id = %s AND user_id = %s
AlreadyInRuns(runs, strava_id, user_id) ==
  \E r \in BagToSet(runs) : r.strava_id = Some(strava_id) /\ r.user_id = user_id

\* The first part of sync_last_activity_raw, up to the request for the
\* coordinate stream: the token, the latest activity, the duplicate check.
\*   done      the request ended here, with `status` and `outcome`;
\*   row       the row of the user as the connection holds it;
\*   updated   the connection holds an UPDATE of the row, not committed;
\*   called    a refresh exchange was made;  strava_id  the activity.
SyncFetch(runs, row, user_id, current_time, token_response, act_resp) ==
  LET tok == get_valid_token_raw(row, current_time, token_response)
      upd == tok.called /\ ~tok.raised
      End(status, outcome) ==
        [done |-> TRUE, status |-> status, outcome |-> outcome, row |-> tok.row,
         updated |-> upd, called |-> tok.called, strava_id |-> None]
  IN  IF tok.raised THEN End(500, "InternalError")
      ELSE IF tok.token = None THEN End(400, "NotConnected")
      ELSE IF act_resp.status_code # 200 THEN End(400, "UpstreamError")
      ELSE IF act_resp.activities = <<>> THEN End(200, "NoActivities")
      ELSE IF AlreadyInRuns(runs, act_resp.activities[1], user_id)
      THEN End(200, "AlreadySynced")
      ELSE [done |-> FALSE, status |-> 0, outcome |-> "", row |-> tok.row,
            updated |-> upd, called |-> tok.called,
            strava_id |-> act_resp.activities[1]]

\* A handler in which the merge is not commented out.
SyncTerritoriesMerging(terr, user_id, season_id, wkt) ==
  IF Len(wkt) >= 3
  THEN UpdateArea(UpsertTerritory(terr, user_id, season_id, wkt), user_id, season_id)
  ELSE terr

\* The territories table after a sync stored its run: the handler returns
\* right after the commit, and the merge written below the return is
\* commented out ("ESTO NO VA"), so the table is left as it was.
SyncTerritories(terr, user_id, season_id, wkt) == terr

\* A second part whose failed INSERT transaction is not rolled back: the
\* row stays in the table although the request ends as an internal error.
SyncStoreNoRollback(runs, terr, user_id, strava_id, season_ids, streams_resp, failure) ==
  LET raw_coords == ValueOf(streams_resp.latlng)
      wkt == WktOfCoords(raw_coords)
      End(status, outcome) ==
        [status |-> status, outcome |-> outcome, runs |-> runs, terr |-> terr,
         committed |-> FALSE]
  IN  IF streams_resp.latlng = NullVal \/ raw_coords = <<>> THEN End(200, "NoGpsData")
      ELSE IF Len(raw_coords) < 2 THEN End(200, "InvalidTrack")
      ELSE IF season_ids = {} THEN End(400, "NoActiveSeason")
      ELSE LET season_id == CHOOSE s \in season_ids : TRUE
               stored == InsertRun(runs, SyncedRunRow(user_id, season_id, strava_id, wkt,
                                                      ActivityElevation(strava_id)))
           IN  IF failure # "none"
               THEN [status |-> 500, outcome |-> "InternalError", runs |-> stored,
                     terr |-> terr, committed |-> FALSE]
               ELSE [status |-> 200, outcome |-> "Synced", runs |-> stored,
                     terr |-> SyncTerritories(terr, user_id, season_id, wkt),
                     committed |-> TRUE]

\* The second part, from the answer to the request for the stream: the
\* validation, the season, the INSERT and the commit.
\*   committed  conn.commit() was reached;  runs, terr  the tables afterwards.
SyncStore(runs, terr, user_id, strava_id, season_ids, streams_resp, failure) ==
  LET raw_coords == ValueOf(streams_resp.latlng)
      wkt == WktOfCoords(raw_coords)
      End(status, outcome) ==
        [status |-> status, outcome |-> outcome, runs |-> runs, terr |-> terr,
         committed |-> FALSE]
  IN  IF streams_resp.latlng = NullVal \/ raw_coords = <<>> THEN End(200, "NoGpsData")
      ELSE IF Len(raw_coords) < 2 THEN End(200, "InvalidTrack")
      ELSE IF season_ids = {} THEN End(400, "NoActiveSeason")
      ELSE IF failure # "none" THEN End(500, "InternalError")
      ELSE LET season_id == CHOOSE s \in season_ids : TRUE
           IN  [status |-> 200, outcome |-> "Synced",
                runs |-> InsertRun(runs, SyncedRunRow(user_id, season_id, strava_id,
                                                      wkt, ActivityElevation(strava_id))),
                terr |-> SyncTerritories(terr, user_id, season_id, wkt),
                committed |-> TRUE]

\* The response of a sync as the model keeps it: `refreshed` is the access
\* token of the refresh answered with 200 (None: no such exchange), and
\* `activity` the latest activity the provider returned (None: none).
SyncResponse(user_id, status, outcome, refreshed, activity) ==
  [op |-> "sync", user |-> user_id, status |-> status, outcome |-> outcome,
   refreshed |-> refreshed, activity |-> activity]

\* An UPDATE that sets the access token only and leaves the refresh token
\* and the expiry of the row as they were.
UsersAfterSyncAccessOnly(committed, updated, user_id, row) ==
  IF committed /\ updated
  THEN [users EXCEPT ![user_id].strava_access_token = row.strava_access_token]
  ELSE users

\* The users table after the request of `user_id` ends: the UPDATE of its
\* connection reaches the table only through conn.commit().
UsersAfterSync(committed, updated, user_id, row) ==
  IF committed /\ updated
  THEN [users EXCEPT ![user_id].strava_access_token = row.strava_access_token,
                     ![user_id].strava_refresh_token = row.strava_refresh_token,
                     ![user_id].strava_token_expires_at = row.strava_token_expires_at]
  ELSE users

\* The answers the provider gives to the requests one sync of `user_id`
\* makes: <<token, activities, streams>>, an answer to a request that is not
\* made being the refusal.
SyncAnswers(user_id) ==
  LET row == users[user_id]
      asked == get_valid_token_raw(row, now, TokenRefused).called
      ts == IF asked THEN RefreshResponses(row.strava_refresh_token, now)
            ELSE {TokenRefused}
      As(t) == LET tok == get_valid_token_raw(row, now, t)
               IN  IF tok.raised \/ tok.token = None THEN {ActivitiesRefused}
                   ELSE ActivityResponses
      Ss(t, a) == LET f == SyncFetch(user_runs, row, user_id, now, t, a)
                  IN  IF f.done THEN {StreamsRefused} ELSE StreamResponses(f.strava_id)
  IN  UNION {UNION {{<<t, a, st>> : st \in Ss(t, a)} : a \in As(t)} : t \in ts}

\* The sync of `user_id` under these answers reaches its INSERT.
SyncInserts(user_id, token_response, act_resp, streams_resp) ==
  LET f == SyncFetch(user_runs, users[user_id], user_id, now, token_response, act_resp)
  IN  /\ ~f.done
      /\ SyncStore(user_runs, territories, user_id, f.strava_id,
                   CurrentSeasons(today), streams_resp, "none").committed

\* POST /api/sync/last-activity-raw, handled with no other request running.
sync_last_activity_raw(user_id, token_response, act_resp, streams_resp, failure) ==
  LET f == SyncFetch(user_runs, users[user_id], user_id, now, token_response, act_resp)
      refreshed == IF f.updated THEN token_response.access_token ELSE None
      activity == IF act_resp.activities = <<>> THEN None ELSE act_resp.activities[1]
  IN  /\ UNCHANGED <<today, now, is_active, season_podiums, requests>>
      /\ IF f.done
         THEN /\ UNCHANGED <<users, user_runs, territories>>
              /\ last' = SyncResponse(user_id, f.status, f.outcome, refreshed, activity)
         ELSE LET g == SyncStore(user_runs, territories, user_id, f.strava_id,
                                 CurrentSeasons(today), streams_resp, failure)
              IN  /\ user_runs' = g.runs
                  /\ territories' = g.terr
                  /\ users' = UsersAfterSync(g.committed, f.updated, user_id, f.row)
                  /\ last' = SyncResponse(user_id, g.status, g.outcome, refreshed, activity)

\* The same handler among other requests: it gives way at each await.  The
\* first step runs to the request for the coordinate stream.  An UPDATE of
\* the user's row waits for the connection that holds one to end.
SyncBegin(p, user_id, token_response, act_resp) ==
  LET f == SyncFetch(user_runs, users[user_id], user_id, now, token_response, act_resp)
      refreshed == IF f.updated THEN token_response.access_token ELSE None
  IN  /\ requests[p] = Idle
      /\ f.updated =>
           \A q \in Procs \ {p} :
              ~(requests[q] # Idle /\ requests[q].user = user_id /\ requests[q].updated)
      /\ UNCHANGED <<today, now, is_active, users, user_runs, territories, season_podiums>>
      /\ IF f.done
         THEN /\ UNCHANGED requests
              /\ last' = SyncResponse(user_id, f.status, f.outcome, refreshed,
                                      IF act_resp.activities = <<>> THEN None
                                      ELSE act_resp.activities[1])
         ELSE /\ requests' = [requests EXCEPT ![p] =
                                [pc |-> "streams", user |-> user_id, row |-> f.row,
                                 updated |-> f.updated, refreshed |-> refreshed,
                                 strava_id |-> f.strava_id]]
              /\ last' = [op |-> "await", proc |-> p]

\* The second step: the stream arrives, the run is stored and committed.
SyncFinish(p, streams_resp, failure) ==
  LET rq == requests[p]
      g == SyncStore(user_runs, territories, rq.user, rq.strava_id,
                     CurrentSeasons(today), streams_resp, failure)
  IN  /\ rq # Idle
      /\ streams_resp \in StreamResponses(rq.strava_id)
      /\ UNCHANGED <<today, now, is_active, season_podiums>>
      /\ user_runs' = g.runs
      /\ territories' = g.terr
      /\ users' = UsersAfterSync(g.committed, rq.updated, rq.user, rq.row)
      /\ requests' = [requests EXCEPT ![p] = Idle]
      /\ last' = SyncResponse(rq.user, g.status, g.outcome, rq.refreshed, rq.strava_id)

\* ---------------------------------------------------------- season closure
\* SUM(col) over the rows of the bag `runs` that `keep` holds of: NULL
\* values are skipped, and the sum of no value is NULL.  `col` is
\* "distance_meters" or "elevation_gain".
ColumnOf(row, col) ==
  IF col = "distance_meters" THEN Some(row.distance_meters) ELSE row.elevation_gain

RECURSIVE SumOver(_, _, _)
SumOver(runs, rows, col) ==
  IF rows = {} THEN NullVal
  ELSE LET r == CHOOSE x \in rows : TRUE
           rest == SumOver(runs, rows \ {r}, col)
           v == ColumnOf(r, col)
       IN  IF v = NullVal THEN rest
           ELSE IF rest = NullVal THEN Some(ValueOf(v) * CopiesIn(r, runs))
           ELSE Some(ValueOf(v) * CopiesIn(r, runs) + ValueOf(rest))

\* ORDER BY ... DESC: a sorts strictly before b (NULL sorts first).
SortsBefore(a, b) ==
  \/ a = NullVal /\ b # NullVal
  \/ a # NullVal /\ b # NullVal /\ ValueOf(a) > ValueOf(b)

\* SELECT user_id, SUM(col) FROM user_runs WHERE season_id = s GROUP BY user_id
SeasonTotals(runs, s, col) ==
  LET rows == {r \in BagToSet(runs) : r.season_id = s}
  IN  [u \in {r.user_id : r \in rows} |->
         SumOver(runs, {r \in rows : r.user_id = u}, col)]

\* RANK() OVER (ORDER BY SUM(col) DESC): one more than the number of users
\* whose total sorts strictly before; equal totals share a rank.
RankOf(totals, u) ==
  1 + Cardinality({v \in DOMAIN totals : SortsBefore(totals[v], totals[u])})

\* The rows the podium SELECT computes for a category, before LIMIT.
\* final_score is the total: in metres for 'hight', and for 'distance' in
\* thousandths of the kilometres the statement stores (SUM / 1000.0).
PodiumCandidates(runs, s, category) ==
  LET col == IF category = "distance" THEN "distance_meters" ELSE "elevation_gain"
      totals == SeasonTotals(runs, s, col)
  IN  {[season_id |-> s, user_id |-> u, category |-> category,
        rank |-> RankOf(totals, u), final_score |-> totals[u]] : u \in DOMAIN totals}

\* The number of rows of a podium.
PodiumSize == 3

\* ORDER BY 5 DESC LIMIT 3: every set of rows the statement may insert.  The
\* order among equal scores is not specified, so the cut may fall anywhere
\* among them.
PodiumChoices(runs, s, category) ==
  LET rows == PodiumCandidates(runs, s, category)
      n == IF Cardinality(rows) < PodiumSize THEN Cardinality(rows) ELSE PodiumSize
  IN  {R \in SUBSET rows :
         /\ Cardinality(R) = n
         /\ \A r \in R, q \in rows \ R : ~SortsBefore(q.final_score, r.final_score)}

\* SELECT id, name FROM seasons WHERE end_date < CURRENT_DATE
\* AND id NOT IN (SELECT DISTINCT season_id FROM season_podiums)
PendingSeasons(podiums, d) ==
  {s \in Seasons : end_date[s] < d /\ s \notin {r.season_id : r \in BagToSet(podiums)}}

\* The choices of rows a closure run over `pending_seasons` has: one podium
\* per season and category.
ClosureChoicesOf(pending_seasons) ==
  LET keys == pending_seasons \X {"distance", "hight"}
      choices == [k \in keys |-> PodiumChoices(user_runs, k[1], k[2])]
      RECURSIVE Maps(_)
      Maps(K) == IF K = {} THEN {<<>>}
                 ELSE LET k == CHOOSE x \in K : TRUE
                      IN  {(k :> c) @@ w : c \in choices[k], w \in Maps(K \ {k})}
  IN  Maps(keys)

ClosureChoices == ClosureChoicesOf(PendingSeasons(season_podiums, today))

\* The response of the closure job as the model keeps it: the seasons it
\* names, the number of podium rows it inserted, and whether the event
\* before it was a closure run that committed.
ClosureResponse(status, processed, written) ==
  [op |-> "closure", status |-> status, processed |-> processed, written |-> written,
   after |-> (last.op = "closure" /\ last.status = 200)]

\* A job on a connection in autocommit mode: the podium rows inserted
\* before the statement that raised stay in the table.
ClosureTxAutocommit(podiums, active, pending_seasons, rows, failure) ==
  IF failure = "none"
  THEN [status |-> 200, podiums |-> podiums (+) SetToBag(rows),
        active |-> [s \in Seasons |-> IF s \in pending_seasons THEN FALSE ELSE active[s]]]
  ELSE [status |-> 500,
        podiums |-> IF failure = "update_season" THEN podiums (+) SetToBag(rows)
                    ELSE podiums,
        active |-> active]

\* A job that commits inside the loop, after each season: when a statement
\* of the last selected season raises, the seasons before it stay closed.
ClosureTxCommitEach(podiums, active, pending_seasons, rows, failure) ==
  IF failure = "none"
  THEN [status |-> 200, podiums |-> podiums (+) SetToBag(rows),
        active |-> [s \in Seasons |-> IF s \in pending_seasons THEN FALSE ELSE active[s]]]
  ELSE LET done == {s \in pending_seasons : \E t \in pending_seasons : s < t}
       IN  [status |-> 500,
            podiums |-> podiums (+) SetToBag({r \in rows : r.season_id \in done}),
            active |-> [s \in Seasons |-> IF s \in done THEN FALSE ELSE active[s]]]

\* The transaction of the job over the seasons it selected: the podium rows
\* of every season, the is_active flags, and one conn.commit() after the
\* loop; an exception at any statement is answered by conn.rollback(),
\* which drops the writes of every season of the run.
ClosureTx(podiums, active, pending_seasons, rows, failure) ==
  IF failure = "none"
  THEN [status |-> 200, podiums |-> podiums (+) SetToBag(rows),
        active |-> [s \in Seasons |-> IF s \in pending_seasons THEN FALSE ELSE active[s]]]
  ELSE [status |-> 500, podiums |-> podiums, active |-> active]

\* POST /api/admin/process-pending-closures.  `written` gives, per pending
\* season and category, the rows the INSERT ... SELECT picked; `failure` is
\* "none" or the statement at which the store raises.
process_pending_season_closures(written, failure) ==
  LET pending_seasons == PendingSeasons(season_podiums, today)
      rows == UNION {written[k] : k \in DOMAIN written}
      tx == ClosureTx(season_podiums, is_active, pending_seasons, rows, failure)
  IN  /\ UNCHANGED <<today, now, users, user_runs, territories, requests>>
      /\ IF pending_seasons = {}
         THEN /\ UNCHANGED <<is_active, season_podiums>>
              /\ last' = ClosureResponse(200, {}, 0)
         ELSE /\ season_podiums' = tx.podiums
              /\ is_active' = tx.active
              /\ last' = IF tx.status = 200
                         THEN ClosureResponse(200, pending_seasons, Cardinality(rows))
                         ELSE ClosureResponse(500, {}, 0)

\* ------------------------------------------------------------- leaderboard
\* The metrics a client may ask for; "speed" is one the handler does not know.
BoardTypes == {"distance", "hight", "speed"}

\* LIMIT 30 of the leaderboard query.
LeaderboardLimit == 30

\* round(x, 2) of n / d hundredths, ties to the even neighbour.
RoundHalfEven(n, d) ==
  LET q == n \div d
      r == n % d
  IN  IF 2 * r > d THEN q + 1
      ELSE IF 2 * r < d THEN q
      ELSE q + (q % 2)

\* "value" of an entry, in hundredths: round(raw_score / divisor, 2), where
\* raw_score is 0.0 for a NULL total and the divisor is 1000.0 for
\* 'distance' (metres to kilometres) and 1.0 for 'hight'.
BoardValue(total, type) ==
  LET raw_score == IF total = NullVal THEN 0 ELSE ValueOf(total)
  IN  IF type = "distance" THEN RoundHalfEven(raw_score, 10) ELSE raw_score * 100

\* SELECT u.id, SUM(col) AS total ... GROUP BY u.id ORDER BY total DESC
\* LIMIT 30 over per-user totals: every list of user ids the query may
\* return.  The order among equal totals is not specified.
LeaderboardRows(totals) ==
  LET RECURSIVE Orders(_)
      Orders(S) ==
        IF S = {} THEN {<<>>}
        ELSE LET firsts == {u \in S : \A v \in S : ~SortsBefore(totals[v], totals[u])}
             IN  UNION {{<<u>> \o rest : rest \in Orders(S \ {u})} : u \in firsts}
      Limit(rows) == IF Len(rows) > LeaderboardLimit
                     THEN SubSeq(rows, 1, LeaderboardLimit) ELSE rows
  IN  {Limit(rows) : rows \in Orders(DOMAIN totals)}

\* Entries that carry the rank of the total, equal totals sharing one.
LeaderboardResultsRanked(rows, totals, type) ==
  [index \in 1..Len(rows) |->
     [rank |-> RankOf(totals, rows[index]), user_id |-> rows[index],
      value |-> BoardValue(totals[rows[index]], type)]]

\* for index, row in enumerate(rows): results.append({"rank": index + 1,
\* "user_id": row[0], "value": round(val, 2)})
LeaderboardResults(rows, totals, type) ==
  [index \in 1..Len(rows) |->
     [rank |-> index, user_id |-> rows[index],
      value |-> BoardValue(totals[rows[index]], type)]]

\* The response of get_leaderboard as the model keeps it, with the request.
LeaderboardResponse(type, season_id, results) ==
  [op |-> "leaderboard", type |-> type, season_id |-> season_id, results |-> results]

\* The column get_leaderboard sums for a type it knows.
BoardColumn(type) == IF type = "distance" THEN "distance_meters" ELSE "elevation_gain"

\* GET /api/leaderboard?type=..&season_id=..: the season summed is the one
\* that contains today; the season_id of the request is not read.
get_leaderboard(type, season_id) ==
  /\ UNCHANGED <<today, now, store, requests>>
  /\ IF CurrentSeasons(today) = {} \/ type \notin {"distance", "hight"}
     THEN last' = LeaderboardResponse(type, season_id, <<>>)
     ELSE \E current_season_id \in CurrentSeasons(today) :
            LET totals == SeasonTotals(user_runs, current_season_id, BoardColumn(type))
            IN  \E rows \in LeaderboardRows(totals) :
                   last' = LeaderboardResponse(type, season_id,
                                               LeaderboardResults(rows, totals, type))

\* -------------------------------------------------------- listing endpoints
\* LIMIT 50 of the history query.
HistoryLimit == 50

\* The season ids a listing request may carry; None: the parameter is absent.
ListingSeasons == Seasons \cup {None}

\* SELECT t.user_id, ST_AsGeoJSON(t.geom) FROM territories t JOIN users u
\* WHERE t.season_id = %s: the entries of the answer, in no specified order.
TerritoriesOf(season_id) ==
  {[user_id |-> k[1], geometry |-> territories[k].geom] :
     k \in {x \in Users \X Seasons : x[2] = season_id /\ territories[x].present}}

\* A listing that answers with the territories of every season when no
\* season contains today.
get_territories_of_all(season_id) ==
  /\ UNCHANGED <<today, now, store, requests>>
  /\ IF season_id = None /\ CurrentSeasons(today) = {}
     THEN last' = [op |-> "territories", season_id |-> season_id, status |-> 200,
                   results |-> UNION {TerritoriesOf(s) : s \in Seasons}]
     ELSE \E target_season \in (IF season_id = None THEN CurrentSeasons(today)
                                ELSE {season_id}) :
            last' = [op |-> "territories", season_id |-> season_id, status |-> 200,
                     results |-> TerritoriesOf(target_season)]

\* GET /api/territories?season_id=..: the season asked for, or the one that
\* contains today; without either the answer is the empty list.
get_territories(season_id) ==
  /\ UNCHANGED <<today, now, store, requests>>
  /\ IF season_id = None /\ CurrentSeasons(today) = {}
     THEN last' = [op |-> "territories", season_id |-> season_id, status |-> 200,
                   results |-> {}]
     ELSE \E target_season \in (IF season_id = None THEN CurrentSeasons(today)
                                ELSE {season_id}) :
            last' = [op |-> "territories", season_id |-> season_id, status |-> 200,
                     results |-> TerritoriesOf(target_season)]

\* SELECT ST_AsGeoJSON(geom) FROM user_runs WHERE user_id = %s AND
\* season_id = %s ORDER BY created_at DESC LIMIT 50: every list the query
\* may return, the order of runs of one day being unspecified.
HistoryRows(runs, user_id, season_id) ==
  LET rows == {<<r, i>> : r \in {x \in BagToSet(runs) : x.user_id = user_id
                                                      /\ x.season_id = season_id},
                         i \in 1..MaxRuns + 1}
      stored == {x \in rows : x[2] <= CopiesIn(x[1], runs)}
      RECURSIVE Orders(_)
      Orders(S) ==
        IF S = {} THEN {<<>>}
        ELSE LET firsts == {x \in S : \A y \in S : y[1].created_at <= x[1].created_at}
             IN  UNION {{<<x[1].geom>> \o rest : rest \in Orders(S \ {x})} : x \in firsts}
      Limit(geoms) == IF Len(geoms) > HistoryLimit
                      THEN SubSeq(geoms, 1, HistoryLimit) ELSE geoms
  IN  {Limit(geoms) : geoms \in Orders(stored)}

\* GET /api/users/{user_id}/runs/history?season_id=..
get_user_runs_history(user_id, season_id) ==
  /\ UNCHANGED <<today, now, store, requests>>
  /\ IF season_id = None /\ CurrentSeasons(today) = {}
     THEN last' = [op |-> "history", user |-> user_id, season_id |-> season_id,
                   status |-> 200, results |-> <<>>]
     ELSE \E target_season \in (IF season_id = None THEN CurrentSeasons(today)
                                ELSE {season_id}) :
           \E results \in HistoryRows(user_runs, user_id, target_season) :
              last' = [op |-> "history", user |-> user_id, season_id |-> season_id,
                       status |-> 200, results |-> results]

\* COALESCE(SUM(col), 0) over the runs of a user in a season.
StatsTotal(user_id, season_id, col) ==
  LET rows == {r \in BagToSet(user_runs) : r.user_id = user_id /\ r.season_id = season_id}
      total == SumOver(user_runs, rows, col)
  IN  IF total = NullVal THEN 0 ELSE ValueOf(total)

\* GET /api/users/{user_id}/stats for a user of the table: the totals of the
\* season that contains today (the distance in metres, which the answer
\* divides by 1000.0), zero when there is none.
get_user_stats(user_id) ==
  /\ UNCHANGED <<today, now, store, requests>>
  /\ LET is_strava_connected == users[user_id].strava_athlete_id # None
         Stats(season, dist, elev) ==
           [op |-> "stats", user |-> user_id, status |-> 200, season |-> season,
            total_distance_m |-> dist, total_elevation_m |-> elev,
            is_strava_connected |-> is_strava_connected]
     IN  IF CurrentSeasons(today) = {}
         THEN last' = Stats(None, 0, 0)
         ELSE \E current_season_id \in CurrentSeasons(today) :
                last' = Stats(current_season_id,
                              StatsTotal(user_id, current_season_id, "distance_meters"),
                              StatsTotal(user_id, current_season_id, "elevation_gain"))

\* The same job among other invocations of it, each on a connection of its
\* own.  The first step is the SELECT of the pending seasons.
ClosureSelect(p) ==
  LET pending_seasons == PendingSeasons(season_podiums, today)
  IN  /\ requests[p] = Idle
      /\ UNCHANGED <<today, now, store>>
      /\ IF pending_seasons = {}
         THEN /\ UNCHANGED requests
              /\ last' = ClosureResponse(200, {}, 0)
         ELSE /\ requests' = [requests EXCEPT ![p] =
                                [pc |-> "closing", pending_seasons |-> pending_seasons]]
              /\ last' = [op |-> "await", proc |-> p]

\* The second step: the statements of the loop over the seasons selected,
\* which read user_runs as it is by then, and the commit.
ClosureWrite(p, written, failure) ==
  LET rq == requests[p]
      rows == UNION {written[k] : k \in DOMAIN written}
      tx == ClosureTx(season_podiums, is_active, rq.pending_seasons, rows, failure)
  IN  /\ rq # Idle
      /\ rq.pc = "closing"
      /\ written \in ClosureChoicesOf(rq.pending_seasons)
      /\ UNCHANGED <<today, now, users, user_runs, territories>>
      /\ season_podiums' = tx.podiums
      /\ is_active' = tx.active
      /\ requests' = [requests EXCEPT ![p] = Idle]
      /\ last' = IF tx.status = 200
                 THEN ClosureResponse(200, rq.pending_seasons, Cardinality(rows))
                 ELSE ClosureResponse(500, {}, 0)

\* ------------------------------------------------------------ environment
\* Midnight: CURRENT_DATE moves on by one day.
NextDay ==
  /\ today < MaxDay
  /\ today' = today + 1
  /\ last' = [op |-> "next_day"]
  /\ UNCHANGED <<now, store, requests>>

\* The clock moves on.
Tick ==
  /\ now < MaxNow
  /\ now' = now + Margin
  /\ last' = [op |-> "tick"]
  /\ UNCHANGED <<today, store, requests>>

\* ----------------------------------------------------------- specifications
DoCreateRun ==
  \E u \in Clients, points \in DirectTracks :
   \E failure \in CreateRunFailuresAt(points, today) :
     /\ BagCardinality(user_runs) < MaxRuns
     /\ create_run(u, points, failure)

DoCallback ==
  \E u \in Clients, response \in CodeResponses(now) :
   \E failure \in IF response.status_code = 200 THEN CallbackFailures ELSE {"none"} :
     strava_callback(u, response, failure)

DoSync ==
  \E u \in Clients :
     \E ans \in SyncAnswers(u), failure \in SyncFailures :
        /\ failure # "none" => SyncInserts(u, ans[1], ans[2], ans[3])
        /\ BagCardinality(user_runs) < MaxRuns
        /\ sync_last_activity_raw(u, ans[1], ans[2], ans[3], failure)

DoClosure ==
  \E written \in ClosureChoices, failure \in ClosureFailures :
     process_pending_season_closures(written, failure)

\* Requests handled one at a time, over the days of the seasons.
Next ==
  \/ DoCreateRun
  \/ DoCallback
  \/ DoSync
  \/ DoClosure
  \/ NextDay

Spec == Init /\ [][Next]_vars

\* Requests handled one at a time while the clock runs, within one day.
NextToken ==
  \/ DoCallback
  \/ DoSync
  \/ Tick

SpecToken == Init /\ [][NextToken]_vars

\* Closed loops submitted one after another, over the days of the seasons.
DoSubmitLoop ==
  \E u \in Clients, points \in LoopTracks :
   \E failure \in CreateRunFailuresAt(points, today) :
     /\ BagCardinality(user_runs) < MaxRuns
     /\ create_run(u, points, failure)

NextGeo ==
  \/ DoSubmitLoop
  \/ NextDay

SpecGeo == Init /\ [][NextGeo]_vars

\* Runs of every user, stored without failure, and the closure job.
DoEnter ==
  \E u \in Users, points \in {TOpen, TLoopA} :
     /\ BagCardinality(user_runs) < MaxEntries
     /\ create_run(u, points, "none")

NextPodium ==
  \/ DoEnter
  \/ DoClosure
  \/ NextDay

SpecPodium == Init /\ [][NextPodium]_vars

\* The request handlers and the leaderboard, over the days of the seasons.
DoLeaderboard ==
  \E type \in BoardTypes, season_id \in Seasons : get_leaderboard(type, season_id)

NextBoard ==
  \/ DoCreateRun
  \/ DoCallback
  \/ DoSync
  \/ NextDay
  \/ DoLeaderboard

SpecBoard == Init /\ [][NextBoard]_vars

\* The ranking of get_leaderboard over per-user totals of every size up to
\* MaxRanked: distinct totals, the first `tied` users with one equal total,
\* and, with `nulls`, the last user with a NULL total.
RankedTotals(n, tied, nulls) ==
  [u \in 1..n |-> IF nulls /\ u = n THEN NullVal
                  ELSE IF u <= tied THEN Some(1000) ELSE Some(u)]

TotalsInputs ==
  {RankedTotals(n, tied, nulls) : n \in 0..MaxRanked, tied \in {0, 2, 3}, nulls \in BOOLEAN}

InitRank ==
  /\ today = 1
  /\ now = 0
  /\ is_active = [s \in Seasons |-> TRUE]
  /\ users = [u \in Users |-> NoCredential]
  /\ user_runs = EmptyBag
  /\ territories = [k \in Users \X Seasons |-> NoTerritory]
  /\ season_podiums = EmptyBag
  /\ requests = [p \in Procs |-> Idle]
  /\ \E type \in {"distance", "hight"}, totals \in TotalsInputs :
        last = [op |-> "totals", type |-> type, totals |-> totals]

RankTotals ==
  /\ last.op = "totals"
  /\ \E rows \in LeaderboardRows(last.totals) :
        last' = LeaderboardResponse(last.type, 1,
                                    LeaderboardResults(rows, last.totals, last.type))
  /\ UNCHANGED <<today, now, store, requests>>

NextRank == RankTotals

SpecRank == InitRank /\ [][NextRank]_vars

\* Invocations of the closure job overlapping one another.
DoClosureSelect == \E p \in Procs : ClosureSelect(p)

DoClosureWrite ==
  \E p \in Procs, failure \in ClosureFailures :
     /\ requests[p] # Idle
     /\ \E written \in ClosureChoicesOf(requests[p].pending_seasons) :
           ClosureWrite(p, written, failure)

NextClosureConc ==
  \/ DoCreateRun
  \/ NextDay
  \/ DoClosureSelect
  \/ DoClosureWrite

SpecClosureConc == Init /\ [][NextClosureConc]_vars

\* The request handlers and the listing endpoints, over the days of the
\* seasons.
DoTerritories == \E season_id \in ListingSeasons : get_territories(season_id)

DoHistory ==
  \E u \in Clients, season_id \in ListingSeasons : get_user_runs_history(u, season_id)

DoStats == \E u \in Clients : get_user_stats(u)

NextList ==
  \/ DoCreateRun
  \/ DoCallback
  \/ DoSync
  \/ NextDay
  \/ DoLeaderboard
  \/ DoTerritories
  \/ DoHistory
  \/ DoStats

SpecList == Init /\ [][NextList]_vars

\* Direct submissions of tracks near and far from the origin.
DoSubmitTrack ==
  \E u \in Clients, points \in GapTracks :
   \E failure \in CreateRunFailuresAt(points, today) :
     /\ BagCardinality(user_runs) < MaxRuns
     /\ create_run(u, points, failure)

NextLoop ==
  \/ DoSubmitTrack
  \/ NextDay

SpecLoop == Init /\ [][NextLoop]_vars

\* Sync requests overlapping one another, within one day.
DoSyncBegin ==
  \E p \in Procs, u \in Clients :
     \E ans \in SyncAnswers(u) :
        /\ BagCardinality(user_runs) < MaxRuns
        /\ SyncBegin(p, u, ans[1], ans[2])

DoSyncFinish ==
  \E p \in Procs, failure \in SyncFailures :
     \E st \in UNION {StreamResponses(a) : a \in Activities} :
        SyncFinish(p, st, failure)

NextConc ==
  \/ DoCallback
  \/ DoSyncBegin
  \/ DoSyncFinish

SpecConc == Init /\ [][NextConc]_vars

\* Sync requests and authorization callbacks of one user overlapping one
\* another while the clock moves on.  The UPDATE of a callback waits, like
\* any UPDATE of the row, for the connection that holds an uncommitted one
\* to end.
OneClient == {1}

DoCallbackAmongRequests ==
  \E u \in OneClient, response \in CodeResponses(now) :
   \E failure \in IF response.status_code = 200 THEN CallbackFailures ELSE {"none"} :
     /\ \A q \in Procs :
           ~(requests[q] # Idle /\ requests[q].user = u /\ requests[q].updated)
     /\ strava_callback(u, response, failure)

DoSyncBeginOfOne ==
  \E p \in Procs, u \in OneClient :
     \E ans \in SyncAnswers(u) :
        /\ BagCardinality(user_runs) < MaxRuns
        /\ SyncBegin(p, u, ans[1], ans[2])

NextTokenConc ==
  \/ DoCallbackAmongRequests
  \/ DoSyncBeginOfOne
  \/ DoSyncFinish
  \/ Tick

SpecTokenConc == Init /\ [][NextTokenConc]_vars

\* ------------------------------------------------------------- properties
\* C1 (season closure is idempotent): a closure run that directly follows a
\* closure run that committed names no season and writes no podium row,
\* whatever runs the pending seasons contain.
SecondClosureProcessesNothing ==
  (last.op = "closure" /\ last.status = 200 /\ last.after)
     => (last.processed = {} /\ last.written = 0)

\* The seasons the closure job has processed and committed: it is the only
\* writer of is_active, which it sets to false.
ClosedSeasons == {s \in Seasons : end_date[s] < today /\ ~is_active[s]}

\* C2 (podium rows and closure): in every state a season has at least one
\* podium row if and only if its end_date is before today and the closure
\* job has processed it.
PodiumRowsIffClosed ==
  \A s \in Seasons :
     (\E r \in BagToSet(season_podiums) : r.season_id = s) <=> (s \in ClosedSeasons)

\* The number of rows of user_runs that carry the dedup key of row r.
RowsWithKeyOf(runs, r) ==
  LET same == {q \in BagToSet(runs) : q.user_id = r.user_id /\ q.strava_id = r.strava_id}
      RECURSIVE Count(_)
      Count(S) == IF S = {} THEN 0
                  ELSE LET q == CHOOSE x \in S : TRUE
                       IN  CopiesIn(q, runs) + Count(S \ {q})
  IN  Count(same)

\* No two rows of `runs` carry the same (user_id, strava_id).
DedupKeyUnique(runs) ==
  \A r \in BagToSet(runs) : r.strava_id # NullVal => RowsWithKeyOf(runs, r) = 1

\* C3 (sequential dedup): with syncs handled one after another, a sync that
\* finds as the latest activity one the user already has a run of answers
\* AlreadySynced and inserts nothing, and the store never holds two runs with
\* the same (user_id, external activity id).
SequentialSyncNeverDuplicates ==
  [][/\ DedupKeyUnique(user_runs')
     /\ (/\ last'.op = "sync"
         /\ last'.activity # None
         /\ \E r \in BagToSet(user_runs) :
               r.user_id = last'.user /\ r.strava_id = Some(last'.activity))
        => (last'.outcome = "AlreadySynced" /\ user_runs' = user_runs)]_vars

\* C3 witness: a sync of an activity that an earlier sync stored has just
\* answered AlreadySynced.
SecondSyncOfSameActivity ==
  /\ last.op = "sync"
  /\ last.outcome = "AlreadySynced"
  /\ \E r \in BagToSet(user_runs) :
        r.user_id = last.user /\ r.strava_id = Some(last.activity)

\* C4 (concurrent dedup): whatever the interleaving of two sync requests of
\* one user that see the same latest activity, at most one run with that
\* (user_id, external activity id) is in the store.
ConcurrentSyncKeepsKeyUnique ==
  \A r \in BagToSet(user_runs) :
     r.strava_id # NullVal => CopiesIn(r, user_runs) <= 1 /\ RowsWithKeyOf(user_runs, r) <= 1

\* C5 (a refresh is persisted): once a sync whose refresh exchange the
\* provider answered with success has ended, with whatever outcome, the
\* stored access token, refresh token and expiry of the user are those of
\* that response.
RefreshIsPersisted ==
  (last.op = "sync" /\ last.refreshed # None) =>
     LET row == users[last.user]
         g == last.refreshed
     IN  /\ row.strava_access_token = AccessOf(g)
         /\ row.strava_refresh_token = RefreshOf(g)
         /\ row.strava_token_expires_at = ExpiresOf(g)

\* The points of a stored LINESTRING, and whether a stored run is a loop.
PointsOfWkt(wkt) == [i \in 1..Len(wkt) |-> Pt(wkt[i][2], wkt[i][1])]
RunIsLoop(r) == is_closed_loop(PointsOfWkt(r.geom))

\* The territory row that the committed direct runs of a key amount to: none
\* without a closed loop, else the union of their polygons with its area.
TerritoryOfRuns(runs, k) ==
  LET loops == {r \in BagToSet(runs) :
                  /\ r.user_id = k[1] /\ r.season_id = k[2]
                  /\ r.strava_id = NullVal /\ RunIsLoop(r)}
      geom == UNION {ST_MakePolygon(r.geom) : r \in loops}
  IN  IF loops = {} THEN NoTerritory
      ELSE [present |-> TRUE, geom |-> geom, area_sq_meters |-> ST_Area(geom)]

\* C6 (direct submission is atomic): in every committed state each territory
\* row is exactly the merge, with its area recomputed, of the closed-loop
\* runs submitted for its key that are in user_runs: no run is there without
\* its merge and no merge without its run, whatever step failed.
RunsAndTerritoriesAgree ==
  \A k \in Users \X Seasons : territories[k] = TerritoryOfRuns(user_runs, k)

\* C6 witness: a closed-loop submission has just failed at the area update,
\* in a store that already holds a territory.
ClosedLoopFailedAtMerge ==
  /\ last.op = "create_run"
  /\ last.status = 500
  /\ last.failure = "update_area"
  /\ is_closed_loop(last.points)
  /\ \E k \in Users \X Seasons : territories[k].present

\* A step of create_run with at least 3 points while a season is active.
SubmissionStep ==
  /\ last'.op = "create_run"
  /\ Len(last'.points) >= 3
  /\ \E s \in Seasons : start_date[s] <= today /\ today <= end_date[s]

\* The step inserted one run.
RunPersisted == BagCardinality(user_runs') = BagCardinality(user_runs) + 1

\* C7 (as stated): for a submission with at least 3 points in an active
\* season, whether the run is persisted is decided by the steps every track
\* goes through (the run insert and the commit): loop closure has no say.
PersistenceIgnoresClosure ==
  [][SubmissionStep => (RunPersisted <=> last'.failure \notin {"insert_run", "commit"})]_vars

\* C7 (amended): the run is persisted exactly when no statement the request
\* executes fails; the merge statements execute, and can fail, only for a
\* closed loop, and only a closed loop changes territories.
PersistenceFollowsExecutedSteps ==
  [][SubmissionStep =>
       /\ RunPersisted <=> last'.failure = "none"
       /\ RunPersisted <=> last'.status = 200
       /\ ~RunPersisted => user_runs' = user_runs /\ territories' = territories
       /\ ~is_closed_loop(last'.points) =>
            /\ territories' = territories
            /\ last'.failure \notin {"upsert_territory", "update_area"}
       /\ (is_closed_loop(last'.points) /\ RunPersisted) =>
            \E k \in Users \X Seasons :
               /\ territories'[k].present
               /\ ST_MakePolygon(WktOfPoints(last'.points)) \subseteq territories'[k].geom]_vars

\* C7 witness: a closed loop was rejected because its merge failed, though
\* the run insert had succeeded.
LoopLostToMergeFailure ==
  /\ last.op = "create_run"
  /\ is_closed_loop(last.points)
  /\ last.failure = "upsert_territory"
  /\ last.status = 500
  /\ user_runs = EmptyBag

\* The track of the activity a sync stored, as points.
SyncedPoints(a) == [i \in 1..Len(ValueOf(ActivityStream(a))) |->
                      Pt(ValueOf(ActivityStream(a))[i][1], ValueOf(ActivityStream(a))[i][2])]

\* A step of a sync that stored a track of at least 3 points whose ends are
\* less than 50 m apart.
SyncedLoopStep ==
  /\ last'.op = "sync"
  /\ last'.outcome = "Synced"
  /\ Len(SyncedPoints(last'.activity)) >= 3
  /\ is_closed_loop(SyncedPoints(last'.activity))

NoSeasonToday == \A s \in Seasons : ~(start_date[s] <= today /\ today <= end_date[s])

\* C9 (as stated): while no season contains today, a direct submission and
\* a sync both end in a failure and leave user_runs and territories as they
\* were.
NoSeasonFailsEveryIngestion ==
  [][(NoSeasonToday /\ last'.op \in {"create_run", "sync"}) =>
       /\ last'.status >= 400
       /\ user_runs' = user_runs
       /\ territories' = territories]_vars

\* C9 (amended): while no season contains today, a direct submission fails,
\* a sync stores nothing and fails unless it ends before the season lookup
\* with one of its routine outcomes, and neither changes user_runs or
\* territories.
NoSeasonStoresNothing ==
  [][(NoSeasonToday /\ last'.op \in {"create_run", "sync"}) =>
       /\ user_runs' = user_runs
       /\ territories' = territories
       /\ last'.op = "create_run" => last'.status = 400
       /\ last'.op = "sync" =>
            /\ last'.outcome # "Synced"
            /\ last'.outcome = "InternalError" => last'.activity = None
            /\ \/ last'.status >= 400
               \/ last'.outcome \in {"NoActivities", "AlreadySynced", "NoGpsData",
                                     "InvalidTrack"}]_vars

\* C9 witness: with runs in the store, a sync reached the season lookup on
\* a day no season contains.
SyncFoundNoSeason ==
  /\ NoSeasonToday
  /\ last.op = "sync"
  /\ last.outcome = "NoActiveSeason"
  /\ user_runs # EmptyBag

\* C10 (short submissions): a direct submission with fewer than 3 points is
\* rejected with the validation error and changes nothing in the store.
ShortSubmissionRejected ==
  [][(last'.op = "create_run" /\ Len(last'.points) < 3) =>
       /\ last'.status = 400
       /\ last'.detail = "Recorrido muy corto"
       /\ store' = store]_vars

\* C10 witness: a two-point submission was rejected in a store with runs and
\* a territory.
ShortSubmissionSeen ==
  /\ last.op = "create_run"
  /\ Len(last.points) < 3
  /\ last.status = 400
  /\ user_runs # EmptyBag
  /\ \E k \in Users \X Seasons : territories[k].present

\* The rows a step added to user_runs.
AddedRows == {r \in BagToSet(user_runs') : CopiesIn(r, user_runs') > CopiesIn(r, user_runs)}

\* A run that was submitted directly and is a closed loop.
IsSubmittedLoop(r) == r.strava_id = NullVal /\ RunIsLoop(r)

\* C11 (territory never shrinks): over any sequence of operations the region
\* and the area_sq_meters of the territory of a (user, season) never
\* decrease, and after a merge the area is at least the area before it and
\* at least the area of the loop just merged.
TerritoryNeverShrinks ==
  [][/\ \A k \in Users \X Seasons :
          territories[k].present =>
             /\ territories'[k].present
             /\ territories[k].geom \subseteq territories'[k].geom
             /\ territories'[k].area_sq_meters >= territories[k].area_sq_meters
     /\ \A r \in AddedRows :
          IsSubmittedLoop(r) =>
             LET t == territories'[<<r.user_id, r.season_id>>]
             IN  /\ t.present
                 /\ ST_MakePolygon(r.geom) \subseteq t.geom
                 /\ t.area_sq_meters >= ST_Area(ST_MakePolygon(r.geom))]_vars

\* C11 witness: a loop was merged into a territory that held another loop
\* overlapping it; the territory covers the 5 cells of both.
TwoLoopsMerged ==
  /\ last.op = "create_run"
  /\ last.status = 200
  /\ \E k \in Users \X Seasons :
        /\ territories[k].present
        /\ territories[k].geom =
             ST_MakePolygon(WktOfPoints(TLoopA)) \cup ST_MakePolygon(WktOfPoints(TLoopB))
        /\ territories[k].area_sq_meters = ST_Area(territories[k].geom)
        /\ Cardinality(territories[k].geom) = 5

\* C12 (re-merging is idempotent): submitting a closed loop that the same
\* user already submitted in the same season leaves the geometry and the
\* area_sq_meters of the territory as the first merge left them.
SecondMergeChangesNothing ==
  [][\A r \in AddedRows :
       (IsSubmittedLoop(r) /\ CopiesIn(r, user_runs) >= 1) =>
          territories' = territories]_vars

\* C12 witness: the same loop of non-zero area is in user_runs twice, the
\* second submission having just succeeded.
SameLoopSubmittedTwice ==
  /\ last.op = "create_run"
  /\ last.status = 200
  /\ \E r \in BagToSet(user_runs) :
        /\ IsSubmittedLoop(r)
        /\ CopiesIn(r, user_runs) = 2
        /\ r.geom = WktOfPoints(last.points)
        /\ ST_MakePolygon(r.geom) # {}

\* C13 (no empty territory): a territory row never holds an empty geometry
\* with area zero; a merge that produces one is aborted.
NoEmptyTerritoryStored ==
  \A k \in Users \X Seasons :
     territories[k].present =>
        territories[k].geom # {} /\ territories[k].area_sq_meters > 0

\* The podium rows of a season and category, and the rows its users of
\* rank at most 3 amount to.
PodiumRowsOf(s, category) ==
  {r \in BagToSet(season_podiums) : r.season_id = s /\ r.category = category}
RankedAtMostThree(s, category) ==
  {c \in PodiumCandidates(user_runs, s, category) : c.rank <= 3}

\* C14 (podium rows): for every season the closure job closed and each
\* category, the podium rows are exactly the users whose rank by summed
\* metric is at most 3, equal totals sharing a rank, each row with that rank.
PodiumIsRankAtMostThree ==
  \A s \in ClosedSeasons, category \in {"distance", "hight"} :
     PodiumRowsOf(s, category) = RankedAtMostThree(s, category)

\* C15 (overlapping closures): whatever the interleaving of two invocations
\* of the closure job, each season ends with the podium rows one invocation
\* would have written, no (season, category, user) appearing twice.
OverlappingClosuresAreSafe ==
  /\ \A r \in BagToSet(season_podiums) :
        /\ CopiesIn(r, season_podiums) = 1
        /\ \A q \in BagToSet(season_podiums) :
              (q.season_id = r.season_id /\ q.category = r.category
                 /\ q.user_id = r.user_id) => q = r
  /\ \A s \in ClosedSeasons, category \in {"distance", "hight"} :
        PodiumRowsOf(s, category) \in PodiumChoices(user_runs, s, category)

\* C16 (a failed closure is rolled back): when a write fails partway
\* through a closure run, the season being closed has no podium row, its
\* is_active flag is as it was, and the next run selects it again.
FailedClosureRollsBack ==
  [][(last'.op = "closure" /\ last'.status = 500) =>
       /\ season_podiums' = season_podiums
       /\ is_active' = is_active
       /\ PendingSeasons(season_podiums', today') # {}
       /\ PendingSeasons(season_podiums', today') = PendingSeasons(season_podiums, today)
       /\ \A s \in PendingSeasons(season_podiums', today') :
             \A r \in BagToSet(season_podiums') : r.season_id # s]_vars

\* C16 witness: a closure run has just failed over a pending season that
\* has runs, so that podium rows had been inserted before the failure.
ClosureFailedOverRuns ==
  /\ last.op = "closure"
  /\ last.status = 500
  /\ \E s \in PendingSeasons(season_podiums, today) :
        \E r \in BagToSet(user_runs) : r.season_id = s

\* The (user, value) pairs a leaderboard of the runs of season s would hold.
BoardOfSeason(s, type) ==
  LET totals == SeasonTotals(user_runs, s, BoardColumn(type))
  IN  {<<u, BoardValue(totals[u], type)>> : u \in DOMAIN totals}

\* The (user, value) pairs of the entries of the last leaderboard response.
BoardEntries == {<<last.results[i].user_id, last.results[i].value>> : i \in 1..Len(last.results)}

\* C17: a leaderboard asked for a metric and a season holds the totals of the
\* runs of the season that was asked for, whether or not it is the current one.
LeaderboardUsesRequestedSeason ==
  (last.op = "leaderboard" /\ last.type \in {"distance", "hight"})
    => BoardEntries = BoardOfSeason(last.season_id, last.type)

\* C18: the values of a leaderboard strictly decrease from each entry to the
\* next.
LeaderboardStrictlyDescending ==
  last.op = "leaderboard"
    => \A i \in 1..(Len(last.results) - 1) :
         last.results[i].value > last.results[i + 1].value

\* C19: the ranks of a leaderboard are 1..N in the order of the entries, with
\* N at most 30 and the number of users with a total when that is smaller;
\* no user has two entries, so users with equal totals get distinct
\* consecutive ranks.
RanksArePositions ==
  [][(last.op = "totals" /\ last'.op = "leaderboard") =>
       LET results == last'.results
           N == Len(results)
       IN  /\ N <= 30
           /\ N = Min({30, Cardinality(DOMAIN last.totals)})
           /\ \A i \in 1..N : /\ results[i].rank = i
                               /\ results[i].user_id \in DOMAIN last.totals
           /\ \A i, j \in 1..N : i # j => results[i].user_id # results[j].user_id]_vars

\* More than 30 users were ranked, the first two of them with equal values.
TiedAndCutLeaderboard ==
  /\ last.op = "leaderboard"
  /\ Len(last.results) = 30
  /\ last.results[3].user_id > 30
  /\ last.results[1].value = last.results[2].value
  /\ last.results[1].rank = 1
  /\ last.results[2].rank = 2

\* C20: a sync reuses the stored access token, with no refresh exchange and
\* no change of the user's row, exactly when now < expires_at - 60; in every
\* other case with a stored refresh token, now = expires_at - 60 included,
\* the refresh exchange is made once.
TokenReusedExactlyWithinMargin ==
  [][last'.op = "sync" =>
       LET row == users[last'.user]
           expires_at == row.strava_token_expires_at
           fresh == expires_at # None /\ now < expires_at - 60
       IN  \A response \in RefreshResponses(row.strava_refresh_token, now) :
              LET tok == get_valid_token_raw(row, now, response)
              IN  /\ fresh =>
                       /\ tok = [raised |-> FALSE, token |-> row.strava_access_token,
                                 called |-> FALSE, row |-> row]
                       /\ last'.refreshed = None
                       /\ users' = users
                  /\ (~fresh /\ row.strava_refresh_token # None) =>
                       /\ tok.called
                       /\ response.status_code = 200 => tok.token = response.access_token
                       /\ last'.refreshed # None \/ last'.outcome = "InternalError"]_vars

\* A sync made exactly at the margin exchanged the refresh token.
RefreshedAtTheMargin ==
  /\ last.op = "sync"
  /\ last.refreshed # None
  /\ users[last.user].strava_token_expires_at # None
  /\ now = users[last.user].strava_token_expires_at - 60

\* The stored token of a user is outside the margin at the time of the
\* request: get_valid_token_raw makes the refresh exchange.
RefreshDue(u) ==
  LET expires_at == users[u].strava_token_expires_at
  IN  ~(expires_at # None /\ now < expires_at - 60)

\* C21: when the provider refuses the refresh exchange of a sync, the token
\* acquisition fails (the sync ends as an internal error) and the user's
\* stored access token, refresh token and expiry are what they were before,
\* also once the request has ended.
RefusedRefreshLeavesCredential ==
  [][(last'.op = "sync" /\ RefreshDue(last'.user) /\ last'.refreshed = None) =>
       /\ last'.outcome = "InternalError"
       /\ last'.status = 500
       /\ users' = users]_vars

\* A connected user's refresh was refused: the credential is still stored.
RefreshRefusedForConnectedUser ==
  /\ last.op = "sync"
  /\ last.outcome = "InternalError"
  /\ last.refreshed = None
  /\ last.activity = None
  /\ users[last.user].strava_refresh_token # None
  /\ RefreshDue(last.user)

\* C22: a sync for a user that has no stored credential fails with the
\* NotConnected outcome (400, "Usuario no conectado a Strava"), which is
\* neither a refresh failure nor an internal error.
NoCredentialIsNotConnected ==
  [][(last'.op = "sync" /\ users[last'.user] = NoCredential) =>
       (last'.outcome = "NotConnected" /\ last'.status = 400)]_vars

\* C23: for every user, the athlete id, the access token, the refresh token
\* and the expiry are all stored or all absent, whatever callbacks and
\* refreshes, answered or refused, committed or not, came before.
CredentialAllOrNothing ==
  \A u \in Users :
     LET row == users[u]
         present == {row.strava_athlete_id # None, row.strava_access_token # None,
                     row.strava_refresh_token # None, row.strava_token_expires_at # None}
     IN  Cardinality(present) = 1

\* A refresh replaced the tokens of a connected user and was committed,
\* while another user never authorized.
RefreshCommittedBesideUnconnected ==
  /\ last.op = "sync"
  /\ last.refreshed # None
  /\ users[last.user].strava_access_token = last.refreshed
  /\ users[last.user].strava_athlete_id # None
  /\ \E u \in Users : users[u] = NoCredential

\* The outbound calls a sync of user u makes under the answers `ans` that
\* the provider answered with a non-success status.
RefusedCalls(u, ans) ==
  LET tok == get_valid_token_raw(users[u], now, ans[1])
      f == SyncFetch(user_runs, users[u], u, now, ans[1], ans[2])
  IN  {c \in {"refresh", "activities", "streams"} :
         \/ c = "refresh" /\ tok.called /\ ans[1].status_code # 200
         \/ c = "activities" /\ ~tok.raised /\ tok.token # None /\ ans[2].status_code # 200
         \/ c = "streams" /\ ~f.done /\ ans[3].status_code # 200}

\* C24: a sync makes each of its outbound calls (refresh, latest activity,
\* coordinate stream) once, and when the provider answers any of them with a
\* non-success status the caller gets a failure, not a routine outcome.
NonSuccessIsSurfaced ==
  [][\A u \in Clients : \A ans \in SyncAnswers(u), failure \in SyncFailures :
        (/\ sync_last_activity_raw(u, ans[1], ans[2], ans[3], failure)
         /\ RefusedCalls(u, ans) # {})
          => last'.status >= 400]_vars

\* A run of activity a is stored for user u.
ActivityStored(a, u) ==
  \E r \in BagToSet(user_runs) : r.strava_id = Some(a) /\ r.user_id = u

\* C25: a sync acquires the token, then fetches the latest activity, then
\* checks for a stored run of it, and only then requests the coordinate
\* stream: a request for the stream is made with a token, for a fetched
\* activity that the check did not find, and a sync whose check finds the
\* run ends as AlreadySynced without a request for the stream.
StreamOnlyAfterDuplicateCheck ==
  [][/\ (last'.op = "sync" /\ last'.outcome = "AlreadySynced") =>
          /\ requests' = requests
          /\ last'.activity # None
          /\ ActivityStored(last'.activity, last'.user)
          /\ store' = store
     /\ (last'.op = "sync" /\ requests' = requests /\ last'.activity # None) =>
          (~RefreshDue(last'.user) \/ last'.refreshed # None)
     /\ \A p \in Procs :
          (requests[p] = Idle /\ requests'[p] # Idle) =>
             LET rq == requests'[p]
             IN  /\ rq.pc = "streams"
                 /\ ~RefreshDue(rq.user) \/ rq.refreshed # None
                 /\ rq.strava_id # None
                 /\ ~ActivityStored(rq.strava_id, rq.user)]_vars

\* A sync found its activity stored and ended with no request in flight.
AlreadySyncedWithoutStream ==
  /\ last.op = "sync"
  /\ last.outcome = "AlreadySynced"
  /\ ActivityStored(last.activity, last.user)
  /\ \A p \in Procs : requests[p] = Idle

\* C26: a sync that does not end as Synced (NoActivities, AlreadySynced,
\* NoGpsData, InvalidTrack, or any failure) leaves user_runs and territories
\* exactly as they were; a sync that ends as Synced adds one run.
OnlySyncedChangesRuns ==
  [][last'.op = "sync" =>
       IF last'.outcome = "Synced"
       THEN BagCardinality(user_runs') = BagCardinality(user_runs) + 1
       ELSE user_runs' = user_runs /\ territories' = territories]_vars

\* A sync failed at its INSERT, after the token and the stream were obtained,
\* beside a run stored before.
SyncFailedAtInsert ==
  /\ last.op = "sync"
  /\ last.outcome = "InternalError"
  /\ last.activity # None
  /\ BagCardinality(user_runs) > 0

\* The gap of a track in metres: the haversine function in effect, given
\* the longitude and the latitude of each end in the roles it declares.
EndpointGap(points) ==
  LET start_point == points[1]
      end_point == points[Len(points)]
  IN  calculate_distance(start_point.lng, start_point.lat, end_point.lng, end_point.lat)

\* C27: create_run treats a stored track as a closed loop, and merges it
\* into the territory, exactly when the gap between its first and its last
\* point is below 50 m; a gap of exactly 50 m is not closed.
ClosedIffGapBelowFifty ==
  [][(last'.op = "create_run" /\ last'.status = 200) =>
       LET gap == EndpointGap(last'.points)
       IN  /\ is_closed_loop(last'.points) <=> gap < 50
           /\ gap >= 50 => territories' = territories
           /\ gap < 50 => \A r \in AddedRows :
                             territories'[<<r.user_id, r.season_id>>].present]_vars

\* C28: every stored run, submitted or synced, references a season whose
\* [start_date, end_date] contains the day the run was created.
RunSeasonContainsCreationDay ==
  \A r \in BagToSet(user_runs) :
     start_date[r.season_id] <= r.created_at /\ r.created_at <= end_date[r.season_id]

\* A submitted run and a synced run are stored, one in each season.
RunsOfBothKindsInBothSeasons ==
  \E r1, r2 \in BagToSet(user_runs) :
     /\ r1.strava_id = NullVal /\ r2.strava_id # NullVal
     /\ r1.season_id # r2.season_id

\* The operations that list what the store holds.
ListingOps == {"territories", "history", "leaderboard", "stats"}

\* C29: on a day that no season contains, a listing request that names no
\* season gets an empty result (get_territories, get_user_runs_history,
\* get_leaderboard) or zero totals (get_user_stats), with a normal status,
\* and no listing request changes the store.
NoSeasonListsNothing ==
  [][(last'.op \in ListingOps) =>
       /\ store' = store
       /\ NoSeasonToday =>
            /\ (last'.op = "territories" /\ last'.season_id = None) =>
                  (last'.results = {} /\ last'.status = 200)
            /\ (last'.op = "history" /\ last'.season_id = None) =>
                  (last'.results = <<>> /\ last'.status = 200)
            /\ last'.op = "leaderboard" => last'.results = <<>>
            /\ last'.op = "stats" =>
                  /\ last'.total_distance_m = 0
                  /\ last'.total_elevation_m = 0
                  /\ last'.status = 200]_vars

\* A listing was asked for with no season named, on a day of no season,
\* while the store holds a run and a territory of the user.
ListedOutsideEverySeason ==
  /\ NoSeasonToday
  /\ last.op \in {"territories", "history"}
  /\ last.season_id = None
  /\ \E r \in BagToSet(user_runs) : r.user_id = 1
  /\ \E s \in Seasons : territories[<<1, s>>].present

\* The closure job has committed podium rows of season s.
HasPodium(s) == \E p \in BagToSet(season_podiums) : p.season_id = s

\* C30: once podium rows of a season are committed, no operation inserts a
\* run of that season or changes a territory of it, and every podium row
\* keeps the rank and the score that the season's runs amount to.
ClosedSeasonIsFrozen ==
  [][/\ \A s \in Seasons :
          HasPodium(s) =>
             /\ \A r \in BagToSet(user_runs) \cup BagToSet(user_runs') :
                   r.season_id = s => CopiesIn(r, user_runs') = CopiesIn(r, user_runs)
             /\ \A u \in Users : territories'[<<u, s>>] = territories[<<u, s>>]
     /\ \A p \in BagToSet(season_podiums') :
          p \in PodiumCandidates(user_runs', p.season_id, p.category)]_vars

\* A run was stored in season 2 after the podium of season 1 was committed.
RunStoredAfterClosure ==
  /\ HasPodium(1)
  /\ last.op \in {"create_run", "sync"}
  /\ last.status = 200
  /\ \E r \in BagToSet(user_runs) : r.season_id = 2

\* C31: one run of the closure job over the seasons it selected is all or
\* nothing: when it succeeds every selected season has its podium rows and
\* is_active = false, and when any statement fails no season is changed.
ClosureIsAllOrNothing ==
  [][last'.op = "closure" =>
       LET selected == PendingSeasons(season_podiums, today)
           RowsAfter(s, category) ==
             {p \in BagToSet(season_podiums') : p.season_id = s /\ p.category = category}
       IN  IF last'.status = 200
           THEN /\ \A s \in selected :
                      /\ ~is_active'[s]
                      /\ \A category \in {"distance", "hight"} :
                            RowsAfter(s, category) \in PodiumChoices(user_runs, s, category)
                /\ \A s \in Seasons \ selected :
                      /\ is_active'[s] = is_active[s]
                      /\ \A p \in BagToSet(season_podiums) \cup BagToSet(season_podiums') :
                            p.season_id = s =>
                               CopiesIn(p, season_podiums') = CopiesIn(p, season_podiums)
           ELSE /\ season_podiums' = season_podiums
                /\ is_active' = is_active]_vars

\* A run of the job over two pending seasons, each with a run, has failed.
ClosureOfTwoSeasonsFailed ==
  /\ last.op = "closure"
  /\ last.status = 500
  /\ PendingSeasons(season_podiums, today) = Seasons
  /\ \A s \in Seasons : \E r \in BagToSet(user_runs) : r.season_id = s

\* C32: in every state, whatever the interleaving of sync requests and
\* callbacks of a user, the stored access token, refresh token and expiry
\* of the user are absent together or are the three values of one answer of
\* the provider.
TokensOfOneResponse ==
  \A u \in Users :
     LET row == users[u]
     IN  \/ /\ row.strava_access_token = None
            /\ row.strava_refresh_token = None
            /\ row.strava_token_expires_at = None
         \/ \E g \in 1..GrantAt(now) :
               /\ row.strava_access_token = TokenResponse(g).access_token
               /\ row.strava_refresh_token = TokenResponse(g).refresh_token
               /\ row.strava_token_expires_at = TokenResponse(g).expires_at

\* A sync committed its refresh over the tokens a callback had stored while
\* another sync of the same user was waiting for its stream.
RefreshCommittedBesidePendingSync ==
  /\ last.op = "sync"
  /\ last.refreshed # None
  /\ users[last.user].strava_access_token = last.refreshed
  /\ \E p \in Procs : requests[p] # Idle /\ requests[p].user = last.user

=============================================================================
